---- MODULE Spec2Model ----
(***************************************************************************)
(* A model of the Aria class (src/unnamed/part_000): the capability        *)
(* classifier, the state readers and writers, the shared href cell and the *)
(* focus-set resolver, over a small document of element nodes.             *)
(*                                                                         *)
(* A node is a record                                                      *)
(*   tag       its tagName                                                 *)
(*   attrs     its content attributes, a function name -> string whose     *)
(*             domain is the set of attributes the node carries            *)
(*   props     the script-visible properties disabled / selected / checked *)
(*             that are not backed by a content attribute                  *)
(*   classList its classes                                                 *)
(*   rendered  whether it has a layout box                                 *)
(* The document is the sequence of the container's descendants in document *)
(* order; target 0 stands for a null target.                               *)
(***************************************************************************)
EXTENDS Integers, Sequences, FiniteSets, TLC

VARIABLES nodes, href, ret, hist

vars == <<nodes, href, ret, hist>>

\* ------------------------------------------------------------------ bounds

\* How many past calls the history variable keeps in the two-link documents.
HistLen == 3

\* How many children the container of the focus documents has.
NumChildren == 4

\* ------------------------------------------------------- values and results

\* null, and a present value s, as getAttribute returns them
Null == <<>>

Some(s) == <<s>>

\* String(v) of a boolean, as setAttribute stores it
Str(v) == IF v THEN "true" ELSE "false"

JSBool(b) == [kind |-> "bool", b |-> b]

JSUndefined == [kind |-> "undefined", b |-> FALSE]

\* What a call gave back: kind is "void", "bool", "undefined", "nodes", "node"
\* or "raised" (an exception left the call); warn is whether console.warn ran.
Result(kind, b, ns, warn) == [kind |-> kind, b |-> b, ns |-> ns, warn |-> warn]

Void == Result("void", FALSE, <<>>, FALSE)

Bool(b) == Result("bool", b, <<>>, FALSE)

Raised == Result("raised", FALSE, <<>>, FALSE)

OfJS(x) == Result(x.kind, x.b, <<>>, FALSE)

NullTarget == 0

Targets == (1..Len(nodes)) \cup {NullTarget}

\* ---------------------------------------------------------- the vocabularies

focusableTags == {"AUDIO", "BUTTON", "CANVAS", "DETAILS", "IFRAME", "INPUT", "SELECT", "SUMMARY", "TEXTAREA", "VIDEO", "PROGRESS"}

focusableAttrs == {"href", "accesskey", "contenteditable"}

disabledRoles == {"button", "group", "input", "link", "menuitem", "menuitemradio", "menuitemcheckbox", "tab", "combobox", "listbox", "radio", "radiogroup", "checkbox", "select", "switch", "tablist", "textbox", "toolbar"}

disabledTags == {"BUTTON", "FIELDSET", "OPTGROUP", "OPTION", "SELECT", "TEXTAREA", "INPUT", "PROGRESS", "A"}

selectedRoles == {"gridcell", "option", "row", "tab"}

selectedTags == {"OPTION"}

checkedRoles == {"checkbox", "menuitemcheckbox", "menuitemradio", "option", "radio", "switch"}

checkedTags == {"INPUT"}

expandedRoles == {"application", "button", "checkbox", "combobox", "gridcell", "link", "listbox", "menuitem", "row", "rowheader", "tab", "treeitem"}

expandedTags == {"BUTTON"}

\* ------------------------------------------------- the document tree provider

hasAttribute(n, a) == a \in DOMAIN n.attrs

getAttribute(n, a) == IF a \in DOMAIN n.attrs THEN Some(n.attrs[a]) ELSE Null

setAttribute(n, a, s) == [n EXCEPT !.attrs = (a :> s) @@ n.attrs]

removeAttribute(n, a) == [n EXCEPT !.attrs = [x \in (DOMAIN n.attrs) \ {a} |-> n.attrs[x]]]

\* if (t.getAttribute(a)): null and the empty string are falsy
truthyAttribute(n, a) == getAttribute(n, a) # Null /\ getAttribute(n, a) # Some("")

\* t.getAttribute("role") of a possibly null target (t?.getAttribute)
roleOf(t) == IF t = NullTarget THEN Null ELSE getAttribute(nodes[t], "role")

\* t?.tagName
tagOf(t) == IF t = NullTarget THEN Null ELSE Some(nodes[t].tag)

\* Elements whose disabled property reflects the disabled content attribute;
\* on any other element t.disabled is a plain script property.
disabledPropTags == {"BUTTON", "FIELDSET", "OPTGROUP", "OPTION", "SELECT", "TEXTAREA", "INPUT"}

\* reading t.disabled
getDisabled(n) ==
    IF n.tag \in disabledPropTags THEN JSBool(hasAttribute(n, "disabled"))
    ELSE n.props.disabled

\* t.disabled = v
setDisabled(n, v) ==
    IF n.tag \in disabledPropTags
    THEN (IF v THEN setAttribute(n, "disabled", "") ELSE removeAttribute(n, "disabled"))
    ELSE [n EXCEPT !.props.disabled = JSBool(v)]

\* t.selected / t.selected = v
getSelected(n) == n.props.selected

setSelected(n, v) == [n EXCEPT !.props.selected = JSBool(v)]

\* t.checked / t.checked = v
getChecked(n) == n.props.checked

setChecked(n, v) == [n EXCEPT !.props.checked = JSBool(v)]

\* ------------------------------------------------------ capability classifier

canDisable(t) ==
    \/ \E tag \in disabledTags : Some(tag) = tagOf(t)
    \/ \E role \in disabledRoles : Some(role) = roleOf(t)

\* canSelect with the role list of the checked axis in place of its own (the
\* four classifiers differ only in the lists they name).
canSelectWithCheckedRoles(t) ==
    \/ \E tag \in selectedTags : Some(tag) = tagOf(t)
    \/ \E role \in checkedRoles : Some(role) = roleOf(t)

canSelect(t) ==
    \/ \E tag \in selectedTags : Some(tag) = tagOf(t)
    \/ \E role \in selectedRoles : Some(role) = roleOf(t)

canCheck(t) ==
    \/ \E tag \in checkedTags : Some(tag) = tagOf(t)
    \/ \E role \in checkedRoles : Some(role) = roleOf(t)

canExpand(t) ==
    \/ \E tag \in expandedTags : Some(tag) = tagOf(t)
    \/ \E role \in expandedRoles : Some(role) = roleOf(t)

\* ---------------------------------------------------------------- readers

isExpanded(t) ==
    IF ~canExpand(t) THEN Bool(FALSE)
    ELSE Bool(getAttribute(nodes[t], "aria-expanded") = Some("true"))

\* isChecked returning whether aria-checked is truthy instead of whether it
\* is "true".
isCheckedByPresence(t) ==
    IF ~canCheck(t) THEN Bool(FALSE)
    ELSE IF truthyAttribute(nodes[t], "aria-checked")
         THEN Bool(TRUE)
         ELSE OfJS(getChecked(nodes[t]))

isChecked(t) ==
    IF ~canCheck(t) THEN Bool(FALSE)
    ELSE IF truthyAttribute(nodes[t], "aria-checked")
         THEN Bool(getAttribute(nodes[t], "aria-checked") = Some("true"))
         ELSE OfJS(getChecked(nodes[t]))

isMixed(t) ==
    IF ~canCheck(t) THEN Bool(FALSE)
    ELSE Bool(getAttribute(nodes[t], "aria-checked") = Some("mixed"))

isSelected(t) ==
    IF ~canSelect(t) THEN Bool(FALSE)
    ELSE IF truthyAttribute(nodes[t], "aria-selected")
         THEN Bool(getAttribute(nodes[t], "aria-selected") = Some("true"))
         ELSE OfJS(getSelected(nodes[t]))

isDisabled(t) ==
    IF ~canDisable(t) THEN Bool(FALSE)
    ELSE IF truthyAttribute(nodes[t], "aria-disabled")
         THEN Bool(getAttribute(nodes[t], "aria-disabled") = Some("true"))
         ELSE OfJS(getDisabled(nodes[t]))

\* The values of aria-controls the documents use, split on " " as
\* String.prototype.split does (the empty string gives one empty piece).
splitOnSpace(s) ==
    CASE s = "" -> <<"">>
      [] s = "p1" -> <<"p1">>
      [] s = "p1 p2" -> <<"p1", "p2">>

\* t.getAttribute("aria-controls")?.split(" "): Null stands for undefined
getControls(t) ==
    IF getAttribute(nodes[t], "aria-controls") = Null THEN Null
    ELSE Some(splitOnSpace(getAttribute(nodes[t], "aria-controls")[1]))

\* ---------------------------------------------------------------- writers
\* A writer gives the document, the href cell and the result after the call.

Outcome(ns, cell, r) == [nodes |-> ns, href |-> cell, ret |-> r]

\* The anchor a and the href cell after handleDisableHref(a, doDisable)
handleDisableHref(a, doDisable) ==
    LET cell == getAttribute(a, "href") IN
    IF doDisable
    THEN [node |-> setAttribute(removeAttribute(a, "href"), "role", "link"), href |-> cell]
    ELSE [node |-> removeAttribute(IF cell # Null THEN setAttribute(a, "href", cell[1]) ELSE a, "role"),
          href |-> cell]

\* disable with the role read once, before the link handling changes it.
disableRoleReadFirst(t, doDisable) ==
    IF ~canDisable(t) THEN Outcome(nodes, href, Void)
    ELSE
      LET byTag == nodes[t].tag \in disabledTags
          byRole == \E role \in disabledRoles : Some(role) = getAttribute(nodes[t], "role")
          n1 == IF byTag THEN setDisabled(nodes[t], doDisable) ELSE nodes[t]
          link == byTag /\ n1.tag = "A" /\ hasAttribute(n1, "href")
          h == handleDisableHref(n1, doDisable)
          n2 == IF link THEN h.node ELSE n1
          cell == IF link THEN h.href ELSE href
          n3 == IF byRole THEN setAttribute(n2, "aria-disabled", Str(doDisable)) ELSE n2
      IN Outcome([nodes EXCEPT ![t] = n3], cell, Void)

disable(t, doDisable) ==
    IF ~canDisable(t) THEN Outcome(nodes, href, Void)
    ELSE
      LET byTag == nodes[t].tag \in disabledTags
          n1 == IF byTag THEN setDisabled(nodes[t], doDisable) ELSE nodes[t]
          link == byTag /\ n1.tag = "A" /\ hasAttribute(n1, "href")
          h == handleDisableHref(n1, doDisable)
          n2 == IF link THEN h.node ELSE n1
          cell == IF link THEN h.href ELSE href
          byRole == \E role \in disabledRoles : Some(role) = getAttribute(n2, "role")
          n3 == IF byRole THEN setAttribute(n2, "aria-disabled", Str(doDisable)) ELSE n2
      IN Outcome([nodes EXCEPT ![t] = n3], cell, Void)

select(t, doSelect) ==
    IF ~canSelect(t) THEN Outcome(nodes, href, Void)
    ELSE
      LET n1 == IF nodes[t].tag \in selectedTags THEN setSelected(nodes[t], doSelect) ELSE nodes[t]
          byRole == \E role \in selectedRoles : Some(role) = getAttribute(n1, "role")
          n2 == IF byRole THEN setAttribute(n1, "aria-selected", Str(doSelect)) ELSE n1
      IN Outcome([nodes EXCEPT ![t] = n2], href, Void)

check(t, doCheck) ==
    IF ~canCheck(t) THEN Outcome(nodes, href, Void)
    ELSE IF /\ nodes[t].tag \in checkedTags
            /\ getAttribute(nodes[t], "type") # Some("radio")
            /\ getAttribute(nodes[t], "type") # Some("checkbox")
    THEN Outcome(nodes, href, Void)
    ELSE
      LET n1 == IF nodes[t].tag \in checkedTags THEN setChecked(nodes[t], doCheck) ELSE nodes[t]
          byRole == \E role \in checkedRoles : Some(role) = getAttribute(n1, "role")
          n2 == IF byRole THEN setAttribute(n1, "aria-checked", Str(doCheck)) ELSE n1
      IN Outcome([nodes EXCEPT ![t] = n2], href, Void)

\* getControls(t).length raises a TypeError when getControls(t) is undefined
expand(t, doExpand) ==
    IF ~canExpand(t) THEN Outcome(nodes, href, Void)
    ELSE IF getControls(t) = Null THEN Outcome(nodes, href, Raised)
    ELSE Outcome([nodes EXCEPT ![t] = setAttribute(nodes[t], "aria-expanded", Str(doExpand))],
                 href,
                 Result("void", FALSE, <<>>, Len(getControls(t)[1]) < 1))

\* ------------------------------------------------------- focus-set resolver

\* The tabindex values the documents use, parsed as the tabIndex property
\* parses the content attribute.
parseTabindex(s) ==
    CASE s = "-1" -> -1
      [] s = "0" -> 0
      [] s = "1" -> 1
      [] s = "2" -> 2

\* Elements that are in the sequential focus order without a tabindex
\* attribute (tabIndex reads 0 on them): form controls, and links with href.
tabbableByDefault(n) ==
    \/ n.tag \in {"BUTTON", "INPUT", "SELECT", "TEXTAREA"}
    \/ (n.tag = "A" /\ hasAttribute(n, "href"))

\* reading t.tabIndex
tabIndex(n) ==
    IF hasAttribute(n, "tabindex") THEN parseTabindex(n.attrs["tabindex"])
    ELSE IF tabbableByDefault(n) THEN 0 ELSE -1

\* whether the element matches the selector this.focusableElements
focusableElements(n) ==
    \/ n.tag \in focusableTags
    \/ \E a \in focusableAttrs : hasAttribute(n, a)
    \/ (hasAttribute(n, "tabindex") /\ n.attrs["tabindex"] # "-1")

\* c.querySelectorAll(this.focusableElements) on the container: the matching
\* descendants, in document order
querySelectorAll ==
    LET Matches(i) == focusableElements(nodes[i])
    IN SelectSeq([i \in 1..Len(nodes) |-> i], Matches)

\* canBeFocused with tabIndex >= -1 in place of tabIndex > -1.
canBeFocusedFromMinusOne(t) ==
    LET n == nodes[t]
        hasTabIndex == tabIndex(n) >= -1
        isVisible == n.rendered
        isNotHidden == /\ ~hasAttribute(n, "hidden")
                       /\ "hidden" \notin n.classList
                       /\ "d-none" \notin n.classList
        isNotDisabled == ~hasAttribute(n, "disabled")
        isNotABumper == ~hasAttribute(n, "data-focus-bumper")
    IN hasTabIndex /\ isVisible /\ isNotHidden /\ isNotDisabled /\ isNotABumper

canBeFocused(t) ==
    LET n == nodes[t]
        hasTabIndex == tabIndex(n) > -1
        isVisible == n.rendered
        isNotHidden == /\ ~hasAttribute(n, "hidden")
                       /\ "hidden" \notin n.classList
                       /\ "d-none" \notin n.classList
        isNotDisabled == ~hasAttribute(n, "disabled")
        isNotABumper == ~hasAttribute(n, "data-focus-bumper")
    IN hasTabIndex /\ isVisible /\ isNotHidden /\ isNotDisabled /\ isNotABumper

getFocusableElements == SelectSeq(querySelectorAll, canBeFocused)

\* .find(element => element.tabIndex > -1): the first element of s that
\* passes, or undefined
find(s) ==
    LET Test(i) == tabIndex(nodes[i]) > -1
        hits == SelectSeq(s, Test)
    IN IF hits = <<>> THEN Result("undefined", FALSE, <<>>, FALSE)
       ELSE Result("node", FALSE, <<Head(hits)>>, FALSE)

reverse(s) == [i \in 1..Len(s) |-> s[Len(s) + 1 - i]]

getLastFocusableNode == find(reverse(getFocusableElements))

getFirstFocusableNode == find(getFocusableElements)

makeUntabbable(isUntabbable) ==
    LET tels == {querySelectorAll[k] : k \in 1..Len(querySelectorAll)}
    IN Outcome([i \in 1..Len(nodes) |->
                  IF i \in tels
                  THEN setAttribute(nodes[i], "tabindex", IF isUntabbable THEN "-1" ELSE "0")
                  ELSE nodes[i]],
               href, Void)

\* ------------------------------------------------------------------ calls

\* One past call: the operation, its target and argument, and the document
\* and href cell it found.
Entry(op, t, v) == [op |-> op, t |-> t, v |-> v, nodes |-> nodes, href |-> href]

NoCall == [op |-> "none", t |-> NullTarget, v |-> FALSE, nodes |-> <<>>, href |-> Null]

\* A call of op on (t, v) with outcome o; hist keeps the calls most recently
\* made, as many as it held at the start.
Call(op, t, v, o) ==
    /\ nodes' = o.nodes
    /\ href' = o.href
    /\ ret' = o.ret
    /\ hist' = Append(Tail(hist), Entry(op, t, v))

Disable == \E t \in Targets, v \in BOOLEAN : Call("disable", t, v, disable(t, v))

Select == \E t \in Targets, v \in BOOLEAN : Call("select", t, v, select(t, v))

Check == \E t \in Targets, v \in BOOLEAN : Call("check", t, v, check(t, v))

Expand == \E t \in Targets, v \in BOOLEAN : Call("expand", t, v, expand(t, v))

IsDisabled == \E t \in Targets : Call("isDisabled", t, FALSE, Outcome(nodes, href, isDisabled(t)))

IsSelected == \E t \in Targets : Call("isSelected", t, FALSE, Outcome(nodes, href, isSelected(t)))

IsChecked == \E t \in Targets : Call("isChecked", t, FALSE, Outcome(nodes, href, isChecked(t)))

IsMixed == \E t \in Targets : Call("isMixed", t, FALSE, Outcome(nodes, href, isMixed(t)))

IsExpanded == \E t \in Targets : Call("isExpanded", t, FALSE, Outcome(nodes, href, isExpanded(t)))

CanBeFocused ==
    \E t \in 1..Len(nodes) :
        Call("canBeFocused", t, FALSE, Outcome(nodes, href, Bool(canBeFocused(t))))

GetFocusableElements ==
    Call("getFocusableElements", NullTarget, FALSE,
         Outcome(nodes, href, Result("nodes", FALSE, getFocusableElements, FALSE)))

GetFirstFocusableNode ==
    Call("getFirstFocusableNode", NullTarget, FALSE, Outcome(nodes, href, getFirstFocusableNode))

GetLastFocusableNode ==
    Call("getLastFocusableNode", NullTarget, FALSE, Outcome(nodes, href, getLastFocusableNode))

MakeUntabbable == \E v \in BOOLEAN : Call("makeUntabbable", NullTarget, v, makeUntabbable(v))

\* ------------------------------------------------------------- documents

\* The attributes given by a set of <<name, value>> pairs
Attrs(S) == [a \in {p[1] : p \in S} |-> (CHOOSE p \in S : p[1] = a)[2]]

\* A pair for an attribute that may be absent
Opt(name, m) == IF m = Null THEN {} ELSE {<<name, m[1]>>}

Element(tag, attrs, disabled, selected, checked, classList, rendered) ==
    [tag |-> tag, attrs |-> attrs,
     props |-> [disabled |-> disabled, selected |-> selected, checked |-> checked],
     classList |-> classList, rendered |-> rendered]

\* A freshly parsed element: option.selected and input.checked are booleans,
\* every other property the writers touch is undefined until it is written.
Parsed(tag, pairs, flag) ==
    Element(tag, Attrs(pairs), JSUndefined,
            IF tag = "OPTION" THEN JSBool(flag) ELSE JSUndefined,
            IF tag = "INPUT" THEN JSBool(flag) ELSE JSUndefined,
            {}, TRUE)

AriaTags == {"A", "BUTTON", "INPUT", "OPTION", "DIV"}

RoleChoices == {Null, Some("link"), Some("option"), Some("checkbox"), Some("note")}

TypeChoices == {Null, Some("checkbox"), Some("radio"), Some("text")}

AriaChoices == {Null, Some(""), Some("true"), Some("false"), Some("mixed")}

ControlsChoices == {Null, Some(""), Some("p1 p2")}

AriaAttrs == {"aria-disabled", "aria-selected", "aria-checked", "aria-expanded"}

\* One-element documents: any tag, role, type and href, with the state of one
\* axis (its ARIA attribute, its native flag, and aria-controls) set beforehand.
AriaDocs ==
    { <<Parsed(tag,
               Opt("role", role) \cup Opt("type", type) \cup Opt("href", hr)
                 \cup Opt(aria, av) \cup Opt("aria-controls", ctl)
                 \cup (IF dis THEN {<<"disabled", "">>} ELSE {}),
               flag)>> :
        <<tag, role, type, hr, aria, av, ctl, dis, flag>> \in
          { x \in AriaTags \X RoleChoices \X TypeChoices \X {Null, Some("h1")}
                   \X AriaAttrs \X AriaChoices \X ControlsChoices \X BOOLEAN \X BOOLEAN :
              /\ x[1] # "INPUT" => x[3] = Null
              /\ x[1] # "A" => x[4] = Null
              /\ x[6] = Some("mixed") => x[5] = "aria-checked"
              /\ x[7] # Null => (x[5] = "aria-expanded" \/ x[6] = Null)
              /\ x[8] => (x[1] \in disabledPropTags /\ x[5] = "aria-disabled")
              /\ x[9] => \/ (x[1] = "OPTION" /\ x[5] = "aria-selected")
                         \/ (x[1] = "INPUT" /\ x[5] = "aria-checked") } }

Init ==
    /\ nodes \in AriaDocs
    /\ href = Null
    /\ ret = Void
    /\ hist = <<NoCall>>

Next ==
    \/ Disable
    \/ Select
    \/ Check
    \/ Expand
    \/ IsDisabled
    \/ IsSelected
    \/ IsChecked
    \/ IsMixed
    \/ IsExpanded

Spec == Init /\ [][Next]_vars

\* Two-link documents: two anchors, each with or without an href.
LinkDocs ==
    { <<Parsed("A", Opt("href", h1), FALSE), Parsed("A", Opt("href", h2), FALSE)>> :
        <<h1, h2>> \in {Null, Some("h1"), Some("h2")} \X {Null, Some("h1"), Some("h2")} }

InitLinks ==
    /\ nodes \in LinkDocs
    /\ href = Null
    /\ ret = Void
    /\ hist = [i \in 1..HistLen |-> NoCall]

NextLinks == Disable

SpecLinks == InitLinks /\ [][NextLinks]_vars

\* The children of the focus documents: buttons and divs, with and without a
\* tabindex attribute, and a disabled button.
ChildKinds ==
    { Parsed("BUTTON", {}, FALSE),
      Parsed("BUTTON", {<<"tabindex", "-1">>}, FALSE),
      Parsed("BUTTON", {<<"disabled", "">>}, FALSE),
      Parsed("DIV", {<<"tabindex", "0">>}, FALSE),
      Parsed("DIV", {<<"tabindex", "1">>}, FALSE),
      Parsed("DIV", {<<"tabindex", "2">>}, FALSE) }

InitFocus ==
    /\ nodes \in [1..NumChildren -> ChildKinds]
    /\ href = Null
    /\ ret = Void
    /\ hist = <<NoCall>>

NextFocus ==
    \/ MakeUntabbable
    \/ GetFocusableElements
    \/ GetFirstFocusableNode
    \/ GetLastFocusableNode
    \/ CanBeFocused

SpecFocus == InitFocus /\ [][NextFocus]_vars

\* ------------------------------------------------------------- properties

\* The call made last, with the document and href cell it found
Last == hist[Len(hist)]

\* The axis given by (tags, roles) covers target t of document ns
Covers(tags, roles, ns, t) ==
    /\ t # NullTarget
    /\ \/ ns[t].tag \in tags
       \/ \E r \in roles : getAttribute(ns[t], "role") = Some(r)

Writers == {"disable", "select", "check", "expand"}

\* The tag set and role set of the axis an operation belongs to
AxisTags(op) ==
    CASE op \in {"disable", "isDisabled"} -> disabledTags
      [] op \in {"select", "isSelected"} -> selectedTags
      [] op \in {"check", "isChecked", "isMixed"} -> checkedTags
      [] op \in {"expand", "isExpanded"} -> expandedTags

AxisRoles(op) ==
    CASE op \in {"disable", "isDisabled"} -> disabledRoles
      [] op \in {"select", "isSelected"} -> selectedRoles
      [] op \in {"check", "isChecked", "isMixed"} -> checkedRoles
      [] op \in {"expand", "isExpanded"} -> expandedRoles

\* The ARIA attribute of the axis an operation belongs to
AxisAttr(op) ==
    CASE op \in {"disable", "isDisabled"} -> "aria-disabled"
      [] op \in {"select", "isSelected"} -> "aria-selected"
      [] op \in {"check", "isChecked", "isMixed"} -> "aria-checked"
      [] op \in {"expand", "isExpanded"} -> "aria-expanded"

\* The native flag of node n on the axis an operation belongs to
AxisFlag(op, n) ==
    CASE op \in {"disable", "isDisabled"} -> getDisabled(n)
      [] op \in {"select", "isSelected"} -> getSelected(n)
      [] op \in {"check", "isChecked"} -> getChecked(n)

\* C2: on a target (a node, or null for a reader) whose tag and role are both
\* outside the axis's sets, the axis's reader returns false, and the axis's
\* writer returns without raising and leaves the document and the href cell
\* as they were.
C2_UnsupportedIsInert ==
    /\ (/\ Last.op \in {"isDisabled", "isSelected", "isChecked", "isMixed", "isExpanded"}
        /\ ~Covers(AxisTags(Last.op), AxisRoles(Last.op), Last.nodes, Last.t))
         => ret = Bool(FALSE)
    /\ (/\ Last.op \in Writers
        /\ Last.t # NullTarget
        /\ ~Covers(AxisTags(Last.op), AxisRoles(Last.op), Last.nodes, Last.t))
         => (ret.kind # "raised" /\ nodes = Last.nodes /\ href = Last.href)

\* A writer was called on a node outside its axis that carries the axis's
\* ARIA attribute and another role.
C2_Witness ==
    /\ Last.op = "check"
    /\ Last.t # NullTarget
    /\ ~Covers(checkedTags, checkedRoles, Last.nodes, Last.t)
    /\ getAttribute(Last.nodes[Last.t], "role") = Some("link")
    /\ hasAttribute(Last.nodes[Last.t], "aria-checked")

\* C3 as claimed: a reader of the checked, selected or disabled axis, on a node
\* the axis covers, returns (value = "true") whenever the ARIA attribute is
\* present, the empty string included, and the native flag only when it is
\* absent.
C3_AnyValueWins ==
    (/\ Last.op \in {"isDisabled", "isSelected", "isChecked"}
     /\ Covers(AxisTags(Last.op), AxisRoles(Last.op), Last.nodes, Last.t))
      => LET n == Last.nodes[Last.t]
             a == getAttribute(n, AxisAttr(Last.op))
         IN IF a # Null THEN ret = Bool(a = Some("true"))
            ELSE ret = OfJS(AxisFlag(Last.op, n))

\* C3 as amended: the ARIA attribute decides when it is present with a
\* non-empty value; when it is absent or empty the reader returns the native
\* flag.
C3_NonEmptyValueWins ==
    (/\ Last.op \in {"isDisabled", "isSelected", "isChecked"}
     /\ Covers(AxisTags(Last.op), AxisRoles(Last.op), Last.nodes, Last.t))
      => LET n == Last.nodes[Last.t]
             a == getAttribute(n, AxisAttr(Last.op))
         IN IF a # Null /\ a # Some("") THEN ret = Bool(a = Some("true"))
            ELSE ret = OfJS(AxisFlag(Last.op, n))

\* isChecked ran on an input with aria-checked="false" and checked = true,
\* and returned false.
C3_Witness ==
    /\ Last.op = "isChecked"
    /\ Last.t # NullTarget
    /\ Last.nodes[Last.t].tag = "INPUT"
    /\ getAttribute(Last.nodes[Last.t], "aria-checked") = Some("false")
    /\ getChecked(Last.nodes[Last.t]) = JSBool(TRUE)
    /\ ret = Bool(FALSE)

\* C6: a writer called again with the same node and value changes neither the
\* document nor the href cell.
C6_WriterIdempotent ==
    [][(/\ Last.op \in Writers
        /\ Last'.op = Last.op
        /\ Last'.t = Last.t
        /\ Last'.v = Last.v)
         => (nodes' = nodes /\ href' = href)]_vars

\* disable(a, false) ran on an anchor that carries an href when the cell
\* already held one: the cell is only ever filled by an earlier
\* disable(a, false) on that anchor.
C6_Witness ==
    /\ Last.op = "disable"
    /\ ~Last.v
    /\ Last.t # NullTarget
    /\ Last.nodes[Last.t].tag = "A"
    /\ hasAttribute(Last.nodes[Last.t], "href")
    /\ Last.href # Null

\* C8: check on an input whose type is neither radio nor checkbox and whose
\* role is checkable leaves the checked flag alone and sets aria-checked to
\* the string form of the value.
C8_RoleBranchStillRuns ==
    (/\ Last.op = "check"
     /\ Last.t # NullTarget
     /\ Last.nodes[Last.t].tag = "INPUT"
     /\ getAttribute(Last.nodes[Last.t], "type") \notin {Some("radio"), Some("checkbox")}
     /\ \E r \in checkedRoles : getAttribute(Last.nodes[Last.t], "role") = Some(r))
      => /\ getChecked(nodes[Last.t]) = getChecked(Last.nodes[Last.t])
         /\ getAttribute(nodes[Last.t], "aria-checked") = Some(Str(Last.v))

\* C9: expand on a node the expanded axis covers returns without raising and
\* leaves aria-expanded at the string form of the value, whatever
\* aria-controls is.
C9_ExpandNeverRaises ==
    (/\ Last.op = "expand"
     /\ Covers(expandedTags, expandedRoles, Last.nodes, Last.t))
      => /\ ret.kind # "raised"
         /\ getAttribute(nodes[Last.t], "aria-expanded") = Some(Str(Last.v))

\* The reader of the axis a writer belongs to, on the current document
ReaderOf(op, t) ==
    CASE op = "disable" -> isDisabled(t)
      [] op = "select" -> isSelected(t)
      [] op = "check" -> isChecked(t)

\* C10: right after disable, select or check was called with value v on a node
\* its axis covers, the axis's reader returns v.
C10_WriteThenRead ==
    (/\ Last.op \in {"disable", "select", "check"}
     /\ Covers(AxisTags(Last.op), AxisRoles(Last.op), Last.nodes, Last.t))
      => ReaderOf(Last.op, Last.t) = Bool(Last.v)

\* The call before the last one
Prev == hist[Len(hist) - 1]

\* C1: disable(a, true) directly followed by disable(a, false), on an anchor
\* that carried href h, leaves the anchor with href h and without a role.
C1_LinkRoundTrip ==
    (/\ Len(hist) >= 2
     /\ Prev.op = "disable" /\ Prev.v /\ Prev.t # NullTarget
     /\ Prev.nodes[Prev.t].tag = "A"
     /\ hasAttribute(Prev.nodes[Prev.t], "href")
     /\ Last.op = "disable" /\ ~Last.v /\ Last.t = Prev.t)
      => /\ getAttribute(nodes[Last.t], "href") = getAttribute(Prev.nodes[Prev.t], "href")
         /\ ~hasAttribute(nodes[Last.t], "role")

\* The call two before the last one
Prev2 == hist[Len(hist) - 2]

\* C7: disable(a, true), disable(b, true), disable(a, false) on two anchors
\* with different hrefs leaves a carrying the href b had.
C7_WrongTargetRestored ==
    (/\ Len(hist) >= 3
     /\ Prev2.op = "disable" /\ Prev2.v /\ Prev2.t # NullTarget
     /\ Prev.op = "disable" /\ Prev.v /\ Prev.t # NullTarget
     /\ Prev.t # Prev2.t
     /\ Last.op = "disable" /\ ~Last.v /\ Last.t = Prev2.t
     /\ Prev2.nodes[Prev2.t].tag = "A" /\ Prev2.nodes[Prev.t].tag = "A"
     /\ hasAttribute(Prev2.nodes[Prev2.t], "href")
     /\ hasAttribute(Prev2.nodes[Prev.t], "href")
     /\ getAttribute(Prev2.nodes[Prev2.t], "href") # getAttribute(Prev2.nodes[Prev.t], "href"))
      => getAttribute(nodes[Last.t], "href") = getAttribute(Prev2.nodes[Prev.t], "href")

\* C4: makeUntabbable(c, true) followed by makeUntabbable(c, false) leaves at
\* tabIndex 0 every descendant that matched the selector with tabIndex 0
\* before the two calls.
C4_UntabbableRoundTrip ==
    [][(/\ Last.op = "makeUntabbable" /\ Last.v
        /\ Last'.op = "makeUntabbable" /\ ~Last'.v)
         => \A i \in 1..Len(nodes) :
              (focusableElements(Last.nodes[i]) /\ tabIndex(Last.nodes[i]) = 0)
                => tabIndex(nodes'[i]) = 0]_vars

\* The container's children have tabIndex 2, -1, 0, 1 in document order and
\* are all rendered, not hidden, not disabled and not focus bumpers.
C5_Document ==
    /\ Len(nodes) = 4
    /\ \A i \in 1..4 :
         /\ tabIndex(nodes[i]) = <<2, -1, 0, 1>>[i]
         /\ nodes[i].rendered
         /\ ~hasAttribute(nodes[i], "hidden")
         /\ nodes[i].classList \cap {"hidden", "d-none"} = {}
         /\ ~hasAttribute(nodes[i], "disabled")
         /\ ~hasAttribute(nodes[i], "data-focus-bumper")

\* C5 as claimed: on that document getFocusableElements returns the first,
\* third and fourth child, and getFirstFocusableNode the child with tabIndex 0.
C5_FirstIsOrderZero ==
    C5_Document =>
      /\ Last.op = "getFocusableElements" => ret = Result("nodes", FALSE, <<1, 3, 4>>, FALSE)
      /\ Last.op = "getFirstFocusableNode" => ret = Result("node", FALSE, <<3>>, FALSE)

\* C5 as amended: getFirstFocusableNode returns the first of them in document
\* order, the child with tabIndex 2.
C5_FirstIsFirstInDocument ==
    C5_Document =>
      /\ Last.op = "getFocusableElements" => ret = Result("nodes", FALSE, <<1, 3, 4>>, FALSE)
      /\ Last.op = "getFirstFocusableNode" => ret = Result("node", FALSE, <<1>>, FALSE)

\* getFirstFocusableNode ran on that document.
C5_Witness == C5_Document /\ Last.op = "getFirstFocusableNode"

====
